---------------------------- MODULE Spec2Model ----------------------------
(***************************************************************************)
(* n8n Workflow Model Tracker: the paginated Fetcher                       *)
(* (utils.fetch_workflows_generator), the Classifier                       *)
(* (utils.process_workflows) and the Streamlit driving script (app.py).    *)
(*                                                                         *)
(* A Python value the code tests, parses, searches, joins or formats is a  *)
(* record: its type `t`, its text `s` (a str, as a sequence of             *)
(* one-character strings) and its number `n` (an int, a bool as 0 or 1, a  *)
(* dict's number of keys).  A str the code only passes on (a message, a    *)
(* workflow id) is a TLA+ string, and None beside such strings is the      *)
(* token None.  A dict whose keys the code looks up is a record with a     *)
(* field `keys` naming the keys that are present.                          *)
(***************************************************************************)
EXTENDS Integers, Sequences, FiniteSets, TLC

VARIABLES
    \* ---- the process environment and one call of the Fetcher
    env,               \* os.environ: N8N_API_KEY, N8N_BASE_URL, N8N_BATCH_SIZE
    args,              \* the call: its keyword names, api_url, api_key
    batch_size_input,  \* the page size the caller holds (app.py:51)
    pc,                \* where the generator stands
    raised,            \* the exception that escaped the call, or None
    api_key,           \* the generator's locals (utils.py:11-49)
    api_url,
    batch_size,
    cursor,
    data,
    requests,          \* every requests.get issued, in order
    responses,         \* what the endpoint answered, in order
    yielded,           \* every value the generator has yielded, in order
    \* ---- one call of the Classifier
    classifier_pc,
    classifier_input,  \* the workflows of process_workflows({"data": ...})
    classifier_result, \* its three lists, or the exception it ended in
    \* ---- the Streamlit script
    base_url_input,    \* the sidebar's text inputs (app.py:49-50)
    api_key_input,
    workflow_data,     \* st.session_state.workflow_data
    all_workflows_dict,\* the deduplication dict of the last fetch run
    status,            \* what the status container shows
    app_pc             \* how the last script run ended

fetchVars == <<env, args, batch_size_input, pc, raised, api_key, api_url,
               batch_size, cursor, data, requests, responses, yielded>>

classifyVars == <<classifier_pc, classifier_input, classifier_result>>

appVars == <<base_url_input, api_key_input, workflow_data, all_workflows_dict,
             status, app_pc>>

vars == <<fetchVars, classifyVars, appVars>>

-----------------------------------------------------------------------------
(* Bounds of the model.                                                    *)

\* The most GET requests one fetch issues.
MaxRequests == 3

\* The most workflows in one input of the Classifier.
MaxWorkflows == 2

\* The most nodes, over all its workflows, in one input of the Classifier.
MaxNodes == 2

-----------------------------------------------------------------------------
(* Python values.                                                          *)

None == "<None>"

PyNone == [t |-> "NoneType", s |-> <<>>, n |-> 0]

PyStr(s) == [t |-> "str", s |-> s, n |-> 0]

PyInt(n) == [t |-> "int", s |-> <<>>, n |-> n]

PyBool(b) == [t |-> "bool", s |-> <<>>, n |-> IF b THEN 1 ELSE 0]

PyDict(size) == [t |-> "dict", s |-> <<>>, n |-> size]

\* bool(v): what `if v:` and `not v` test.
truth(v) ==
    CASE v.t = "NoneType" -> FALSE
      [] v.t = "str" -> v.s # <<>>
      [] OTHER -> v.n # 0

\* d.get(k, default) for a dict modelled as a record with a `keys` field.
dict_get(d, k, default) == IF k \in d.keys THEN d[k] ELSE default

Digits == <<"0", "1", "2", "3", "4", "5", "6", "7", "8", "9">>

IsDigit(c) == \E i \in 1..Len(Digits) : Digits[i] = c

DigitValue(c) == (CHOOSE i \in 1..Len(Digits) : Digits[i] = c) - 1

RECURSIVE DecimalValue(_)
DecimalValue(s) ==
    IF s = <<>> THEN 0
    ELSE 10 * DecimalValue(SubSeq(s, 1, Len(s) - 1)) + DigitValue(s[Len(s)])

RECURSIVE DecimalText(_)
DecimalText(n) ==
    IF n < 10 THEN <<Digits[n + 1]>>
    ELSE DecimalText(n \div 10) \o <<Digits[(n % 10) + 1]>>

\* int(v): an int is itself; a str of digits is its decimal value; the
\* empty str and a str with a character that is no digit raise ValueError
\* (the model holds no text with a sign, blanks or underscores).
int_raises(v) ==
    v.t = "str" /\ (v.s = <<>> \/ \E i \in 1..Len(v.s) : ~IsDigit(v.s[i]))

int(v) == IF v.t = "int" THEN v.n ELSE DecimalValue(v.s)

TRUE_TEXT ==
    <<"T", "r", "u", "e">>

FALSE_TEXT ==
    <<"F", "a", "l", "s", "e">>

NONE_TEXT ==
    <<"N", "o", "n", "e">>

\* str(v) for a scalar: a str is itself, an int its decimal digits (the
\* model holds none below 0), a bool "True" or "False", None "None".
str(v) ==
    CASE v.t = "str" -> v.s
      [] v.t = "int" -> DecimalText(v.n)
      [] v.t = "bool" -> IF v.n = 1 THEN TRUE_TEXT ELSE FALSE_TEXT
      [] OTHER -> NONE_TEXT

\* `sub in text` for two str.
Contains(sub, text) ==
    \E i \in 1..(Len(text) - Len(sub) + 1) :
        SubSeq(text, i, i + Len(sub) - 1) = sub

SEPARATOR ==
    <<",", " ">>

\* ", ".join(items) for a list of str.
RECURSIVE join(_)
join(items) ==
    IF items = <<>> THEN <<>>
    ELSE IF Len(items) = 1 THEN items[1].s
    ELSE items[1].s \o SEPARATOR \o join(Tail(items))

\* str.join raises TypeError on an item that is no str.
join_raises(items) == \E i \in 1..Len(items) : items[i].t # "str"

\* text.rstrip('/')
RECURSIVE rstrip_slash(_)
rstrip_slash(text) ==
    IF text # <<>> /\ text[Len(text)] = "/"
    THEN rstrip_slash(SubSeq(text, 1, Len(text) - 1))
    ELSE text

WORKFLOWS_PATH ==
    <<"/", "a", "p", "i", "/", "v", "1", "/", "w", "o", "r", "k", "f", "l",
    "o", "w", "s">>

\* f"{base}/api/v1/workflows" for a str base
workflows_url(base) == PyStr(base \o WORKFLOWS_PATH)

-----------------------------------------------------------------------------
(* The values of one fetch.                                                *)

\* def fetch_workflows_generator(api_url=None, api_key=None)
Parameters == {"api_url", "api_key"}

\* The keyword names a call passes: the function's own parameters, and the
\* call app.py:190 writes (api_url=, api_key=, batch_size=).
SignatureCall == {"api_url", "api_key"}

DriverCall == {"api_url", "api_key", "batch_size"}

\* Python binds a call's keywords to the parameters; a keyword that names no
\* parameter raises TypeError at the call, before any of the body runs.
Binds(names) == names \subseteq Parameters

\* os.getenv("N8N_BATCH_SIZE", 20)
DefaultBatchSize == 20

\* {"error": message} and a batch, as the consumer sees them.
ErrorValue(message) == [type |-> "dict", error |-> message, items |-> <<>>]

BatchValue(workflows) == [type |-> "list", error |-> None, items |-> workflows]

\* isinstance(batch, dict) and "error" in batch
IsErrorValue(v) == v.type = "dict" /\ v.error # None

\* A workflow record as the Fetcher passes it on: its id and what else it
\* holds (a revision stands for the other fields).
Workflow(id, rev) == [keys |-> {"id", "rev"}, id |-> id, rev |-> rev]

ARG_KEY ==
    <<"a", "k">>

ENV_KEY ==
    <<"e", "k">>

ARG_URL ==
    <<"h", "t", "t", "p", ":", "/", "/", "a", "/", "w">>

ENV_BASE_URL ==
    <<"h", "t", "t", "p", ":", "/", "/", "e">>

INPUT_URL ==
    <<"h", "t", "t", "p", ":", "/", "/", "n">>

INPUT_URL_SLASH ==
    <<"h", "t", "t", "p", ":", "/", "/", "n", "/">>

CURSOR_1 ==
    <<"c", "1">>

\* The `data` arrays the endpoint serves.
Batches ==
    { <<>>,
      <<Workflow(PyStr(<<"a">>), 1)>>,
      <<Workflow(PyStr(<<"a">>), 2), Workflow(PyStr(<<"b">>), 1)>> }

\* nextCursor: null, the empty string, an opaque token.
Cursors == {PyNone, PyStr(<<>>), PyStr(CURSOR_1)}

\* A decoded JSON object {"data": [...], "nextCursor": ...}; either key may
\* be missing.
Bodies ==
    { [keys |-> {"data"}, data |-> b, nextCursor |-> PyNone] : b \in Batches }
    \cup
    { [keys |-> {"data", "nextCursor"}, data |-> b, nextCursor |-> c] :
        b \in Batches, c \in Cursors }
    \cup
    { [keys |-> {"nextCursor"}, data |-> <<>>, nextCursor |-> PyStr(CURSOR_1)] }

NoBody == [keys |-> {}, data |-> <<>>, nextCursor |-> PyNone]

\* What one GET can come to: a 2xx response with a JSON object, no response
\* (requests.get raises), a non-2xx status (raise_for_status raises), a body
\* that is no JSON (response.json raises), a JSON body that is no object.
Responses ==
    { [kind |-> "ok", body |-> b] : b \in Bodies }
    \cup
    { [kind |-> k, body |-> NoBody] :
        k \in {"network_error", "http_error", "invalid_json", "json_not_object"} }

\* os.getenv(name): None when the variable is unset.
os_getenv(name) == env[name]

Environments ==
    { [N8N_API_KEY |-> k, N8N_BASE_URL |-> u, N8N_BATCH_SIZE |-> b] :
        k \in {PyNone, PyStr(<<>>), PyStr(ENV_KEY)},
        u \in {PyNone, PyStr(ENV_BASE_URL)},
        b \in {PyNone, PyStr(<<"5">>), PyStr(<<"x">>)} }

Calls ==
    { [names |-> n, api_url |-> u, api_key |-> k] :
        n \in {SignatureCall, DriverCall},
        u \in {PyNone, PyStr(<<>>), PyStr(ARG_URL)},
        k \in {PyNone, PyStr(<<>>), PyStr(ARG_KEY)} }

NoCall == [names |-> {}, api_url |-> PyNone, api_key |-> PyNone]

\* st.number_input("Batch Size", min_value=1, max_value=250, value=10)
BatchSizeInputs == {1, 10, 20, 250}

-----------------------------------------------------------------------------
(* fetch_workflows_generator (utils.py:7-61) as a state machine: the call, *)
(* then one action per resumption of the generator, from where it stands   *)
(* to its next yield or to its end.                                        *)

\* The generator before any call.
NotCalled ==
    /\ pc = "uncalled"
    /\ raised = None
    /\ api_key = PyNone
    /\ api_url = PyNone
    /\ batch_size = 0
    /\ cursor = PyNone
    /\ data = NoBody
    /\ requests = <<>>
    /\ responses = <<>>
    /\ yielded = <<>>

\* The call expression: it creates the generator object, running none of the
\* body, or raises TypeError.
Call ==
    /\ pc = "uncalled"
    /\ args # NoCall
    /\ IF Binds(args.names)
       THEN /\ pc' = "created"
            /\ raised' = raised
       ELSE /\ pc' = "raised"
            /\ raised' = "TypeError"
    /\ UNCHANGED <<env, args, batch_size_input, api_key, api_url, batch_size,
                   cursor, data, requests, responses, yielded>>
    /\ UNCHANGED <<classifyVars, appVars>>

\* if not api_key: api_key = os.getenv("N8N_API_KEY")
resolve_api_key ==
    IF ~truth(args.api_key) THEN os_getenv("N8N_API_KEY") ELSE args.api_key

\* A faulty resolve_api_url, to test C3 against: `if base_url:` is left out,
\* and an unset N8N_BASE_URL is formatted as "None/api/v1/workflows".
resolve_api_url_unguarded ==
    IF ~truth(args.api_url)
    THEN workflows_url(str(os_getenv("N8N_BASE_URL")))
    ELSE args.api_url

\* if not api_url:
\*     base_url = os.getenv("N8N_BASE_URL")
\*     if base_url: api_url = f"{base_url}/api/v1/workflows"
resolve_api_url ==
    IF ~truth(args.api_url) /\ truth(os_getenv("N8N_BASE_URL"))
    THEN workflows_url(os_getenv("N8N_BASE_URL").s)
    ELSE args.api_url

\* A faulty Params, to test C1 against: the cursor is never sent.
Params_without_cursor(limit, cur) ==
    [keys |-> {"limit"}, limit |-> limit, cursor |-> PyNone]

\* params = {'limit': batch_size}; if cursor: params['cursor'] = cursor
Params(limit, cur) ==
    IF truth(cur)
    THEN [keys |-> {"limit", "cursor"}, limit |-> limit, cursor |-> cur]
    ELSE [keys |-> {"limit"}, limit |-> limit, cursor |-> PyNone]

\* The except clause that catches what a response raises, by its message.
ErrorOf(kind) ==
    CASE kind = "invalid_json" -> "Failed to decode JSON"
      [] kind \in {"network_error", "http_error"} -> "Request failed"
      [] OTHER -> "An unexpected error occurred"

\* One turn of `while True` up to its yield, or to the yield of the except
\* clause the turn ends in (utils.py:38-47, 54-61).
Iterate(url, key, limit, cur) ==
    /\ Len(requests) < MaxRequests
    /\ \E r \in Responses :
        /\ requests' = Append(requests,
                              [url |-> url, header |-> key, params |-> Params(limit, cur)])
        /\ responses' = Append(responses, r)
        /\ IF r.kind = "ok"
           THEN /\ data' = r.body
                /\ yielded' = Append(yielded, BatchValue(dict_get(r.body, "data", <<>>)))
                /\ pc' = "at_yield_batch"
           ELSE /\ data' = data
                /\ yielded' = Append(yielded, ErrorValue(ErrorOf(r.kind)))
                /\ pc' = "at_yield_error"

\* The first next(): utils.py:11-47.
ResumeCreated ==
    /\ pc = "created"
    /\ api_key' = resolve_api_key
    /\ api_url' = resolve_api_url
    /\ cursor' = PyNone
    /\ IF ~truth(resolve_api_key)
       THEN /\ yielded' = Append(yielded, ErrorValue("API key not found"))
            /\ pc' = "at_yield_error"
            /\ UNCHANGED <<batch_size, data, requests, responses>>
       ELSE IF ~truth(resolve_api_url)
       THEN /\ yielded' = Append(yielded, ErrorValue("API URL not found"))
            /\ pc' = "at_yield_error"
            /\ UNCHANGED <<batch_size, data, requests, responses>>
       ELSE LET size == IF os_getenv("N8N_BATCH_SIZE") = PyNone
                        THEN PyInt(DefaultBatchSize)
                        ELSE os_getenv("N8N_BATCH_SIZE")
            IN  IF int_raises(size)
                THEN \* int(...) raises ValueError inside the try (utils.py:35, 54-57)
                     /\ yielded' = Append(yielded, ErrorValue("Failed to decode JSON"))
                     /\ pc' = "at_yield_error"
                     /\ UNCHANGED <<batch_size, data, requests, responses>>
                ELSE /\ batch_size' = int(size)
                     /\ Iterate(resolve_api_url, resolve_api_key, int(size), PyNone)
    /\ UNCHANGED <<env, args, batch_size_input, raised>>
    /\ UNCHANGED <<classifyVars, appVars>>

\* next() after a batch: cursor = data.get("nextCursor"); if not cursor: break
ResumeAfterBatch ==
    /\ pc = "at_yield_batch"
    /\ cursor' = dict_get(data, "nextCursor", PyNone)
    /\ IF ~truth(dict_get(data, "nextCursor", PyNone))
       THEN /\ pc' = "done"
            /\ UNCHANGED <<data, requests, responses, yielded>>
       ELSE Iterate(api_url, api_key, batch_size, dict_get(data, "nextCursor", PyNone))
    /\ UNCHANGED <<env, args, batch_size_input, raised, api_key, api_url, batch_size>>
    /\ UNCHANGED <<classifyVars, appVars>>

\* A faulty ResumeAfterError, to test C2 against: the except clause sits
\* inside the loop, and the request is tried again.
ResumeAfterError_retrying ==
    /\ pc = "at_yield_error"
    /\ Iterate(api_url, api_key, batch_size, cursor)
    /\ UNCHANGED <<env, args, batch_size_input, raised, api_key, api_url,
                   batch_size, cursor>>
    /\ UNCHANGED <<classifyVars, appVars>>

\* next() after an error value: the function returns.
ResumeAfterError ==
    /\ pc = "at_yield_error"
    /\ pc' = "done"
    /\ UNCHANGED <<env, args, batch_size_input, raised, api_key, api_url,
                   batch_size, cursor, data, requests, responses, yielded>>
    /\ UNCHANGED <<classifyVars, appVars>>

-----------------------------------------------------------------------------
(* The texts of the Classifier.                                            *)

OPENROUTER_TYPE ==
    <<"@", "n", "8", "n", "/", "n", "8", "n", "-", "n", "o", "d", "e", "s",
    "-", "l", "a", "n", "g", "c", "h", "a", "i", "n", ".", "l", "m", "C",
    "h", "a", "t", "O", "p", "e", "n", "R", "o", "u", "t", "e", "r">>

LM_CHAT ==
    <<"l", "m", "C", "h", "a", "t">>

CHAT_MODEL ==
    <<"C", "h", "a", "t", "M", "o", "d", "e", "l">>

DYNAMIC ==
    <<"D", "y", "n", "a", "m", "i", "c">>

\* The texts the model's nodes carry.
OTHER_TYPE ==
    <<"a", ".", "l", "m", "C", "h", "a", "t", "B">>

PLAIN_TYPE ==
    <<"s", "e", "t">>

LOWER_TYPE ==
    <<"a", ".", "l", "m", "c", "h", "a", "t">>

HELPER_NAME ==
    <<"M", "y", "C", "h", "a", "t", "M", "o", "d", "e", "l", "X">>

PLAIN_NAME ==
    <<"S">>

LOWER_NAME ==
    <<"c", "h", "a", "t", "m", "o", "d", "e", "l">>

ROUTER_NAME ==
    <<"O", "R">>

GPT4 ==
    <<"g", "p", "t", "-", "4">>

CRED_NAME ==
    <<"k", "1">>

-----------------------------------------------------------------------------
(* process_workflows (utils.py:63-136).                                    *)

EmptyDict == [keys |-> {}, model |-> PyNone]

\* is_openrouter = node_type == "@n8n/n8n-nodes-langchain.lmChatOpenRouter"
is_openrouter(node_type) == node_type = PyStr(OPENROUTER_TYPE)

\* `text in container` raises TypeError when the container is None.
in_raises(container) == container.t # "str"

\* "lmChat" in node_type or "ChatModel" in node_name: what it raises (the
\* right operand is evaluated only when the left one is false) ...
is_other_chat_raises(node_type, node_name) ==
    \/ in_raises(node_type)
    \/ ~Contains(LM_CHAT, node_type.s) /\ in_raises(node_name)

\* A faulty is_other_chat, to test C6 against: the name is not looked at.
is_other_chat_by_type_only(node_type, node_name) ==
    Contains(LM_CHAT, node_type.s)

\* ... and its value when it does not raise.
is_other_chat(node_type, node_name) ==
    \/ Contains(LM_CHAT, node_type.s)
    \/ Contains(CHAT_MODEL, node_name.s)

\* for cred_val in credentials.values():
\*     if isinstance(cred_val, dict) and "name" in cred_val: keys.append(...)
RECURSIVE credential_names(_)
credential_names(values) ==
    IF values = <<>> THEN <<>>
    ELSE LET cred_val == values[1]
         IN  (IF cred_val.t = "dict" /\ "name" \in cred_val.keys
              THEN <<cred_val.name>> ELSE <<>>)
             \o credential_names(Tail(values))

\* A faulty model_entries, to test C8 against: a mapping is not told from a
\* scalar.
model_entries_without_dynamic(node) ==
    LET model_val == dict_get(dict_get(node, "parameters", EmptyDict), "model", PyNone)
    IN  IF truth(model_val) THEN <<PyStr(str(model_val))>> ELSE <<>>

\* model_val = node.get("parameters", {}).get("model")
\* if model_val: models.append("Dynamic" if isinstance(model_val, dict)
\*                             else str(model_val))
model_entries(node) ==
    LET model_val == dict_get(dict_get(node, "parameters", EmptyDict), "model", PyNone)
    IN  IF truth(model_val)
        THEN IF model_val.t = "dict" THEN <<PyStr(DYNAMIC)>> ELSE <<PyStr(str(model_val))>>
        ELSE <<>>

\* The collectors of one workflow before its first node.
NoMatches ==
    [has_openrouter |-> FALSE, has_other_model |-> FALSE,
     chat_models |-> <<>>, keys |-> <<>>, models |-> <<>>, raised |-> None]

\* The body of `for node in nodes` (utils.py:88-117).
scan_node(acc, node) ==
    LET node_type == dict_get(node, "type", PyNone)
        node_name == dict_get(node, "name", PyNone)
    IN  IF acc.raised # None THEN acc
        ELSE IF is_other_chat_raises(node_type, node_name)
        THEN [acc EXCEPT !.raised = "TypeError"]
        ELSE IF ~(is_openrouter(node_type) \/ is_other_chat(node_type, node_name))
        THEN acc
        ELSE [acc EXCEPT
                !.has_openrouter = @ \/ is_openrouter(node_type),
                !.has_other_model = @ \/ ~is_openrouter(node_type),
                !.chat_models = Append(@, node_name),
                !.keys = @ \o credential_names(dict_get(node, "credentials", <<>>)),
                !.models = @ \o (IF is_openrouter(node_type)
                                 THEN model_entries(node) ELSE <<>>)]

RECURSIVE scan_nodes(_, _)
scan_nodes(acc, nodes) ==
    IF nodes = <<>> THEN acc
    ELSE scan_nodes(scan_node(acc, nodes[1]), Tail(nodes))

\* workflow_info (utils.py:119-126).
workflow_info(workflow, acc) ==
    [ID |-> dict_get(workflow, "id", None),
     Name |-> dict_get(workflow, "name", "Unnamed Workflow"),
     Active |-> dict_get(workflow, "active", FALSE),
     Chat_Model_Used |-> IF acc.chat_models # <<>> THEN join(acc.chat_models) ELSE NONE_TEXT,
     Key |-> IF acc.keys # <<>> THEN join(acc.keys) ELSE NONE_TEXT,
     Model_Used |-> IF acc.models # <<>> THEN join(acc.models) ELSE <<>>]

NoRows ==
    [raised |-> None, openrouter_workflows |-> <<>>,
     other_model_workflows |-> <<>>, all_workflows_data |-> <<>>]

\* The call ended in an exception: there is no return value.
Raised(exception) == [NoRows EXCEPT !.raised = exception]

\* The body of `for workflow in workflows` (utils.py:76-134).
process_workflow(out, workflow) ==
    LET acc == scan_nodes(NoMatches, dict_get(workflow, "nodes", <<>>))
    IN  IF out.raised # None THEN out
        ELSE IF acc.raised # None THEN Raised(acc.raised)
        ELSE IF join_raises(acc.chat_models) \/ join_raises(acc.keys)
        THEN Raised("TypeError")
        ELSE [out EXCEPT
                !.all_workflows_data = Append(@, workflow_info(workflow, acc)),
                !.openrouter_workflows =
                    IF acc.has_openrouter
                    THEN Append(@, workflow_info(workflow, acc)) ELSE @,
                !.other_model_workflows =
                    IF acc.has_other_model
                    THEN Append(@, workflow_info(workflow, acc)) ELSE @]

RECURSIVE process_from(_, _)
process_from(out, workflows) ==
    IF workflows = <<>> THEN out
    ELSE process_from(process_workflow(out, workflows[1]), Tail(workflows))

\* process_workflows(data)
process_workflows(d) ==
    IF "error" \in d.keys THEN NoRows
    ELSE process_from(NoRows, dict_get(d, "data", <<>>))

-----------------------------------------------------------------------------
(* The inputs of the Classifier in the model.                              *)

Node(keys, type, name, credentials, parameters) ==
    [keys |-> keys, type |-> type, name |-> name,
     credentials |-> credentials, parameters |-> parameters]

\* A node with `type` and `name` only.
Plain(type, name) == Node({"type", "name"}, type, name, <<>>, EmptyDict)

\* A credential reference {"id": ..., "name": ...}, and a value that is no dict.
Credential(name) == [t |-> "dict", keys |-> {"id", "name"}, name |-> PyStr(name)]

BareCredential == [t |-> "str", keys |-> {}, name |-> PyNone]

\* A node of the preferred type with parameters {"model": model}.
Router(model) ==
    Node({"type", "name", "credentials", "parameters"},
         PyStr(OPENROUTER_TYPE), PyStr(ROUTER_NAME),
         <<Credential(CRED_NAME), BareCredential>>,
         [keys |-> {"model"}, model |-> model])

\* The values of parameters.model.
ModelValues ==
    { PyNone, PyStr(GPT4), PyStr(<<>>), PyInt(0), PyInt(7),
      PyBool(FALSE), PyBool(TRUE), PyDict(0), PyDict(1) }

WellFormedNodes ==
    { Plain(PyStr(OTHER_TYPE), PyStr(PLAIN_NAME)),
      Plain(PyStr(PLAIN_TYPE), PyStr(HELPER_NAME)),
      Plain(PyStr(PLAIN_TYPE), PyStr(PLAIN_NAME)),
      Plain(PyStr(LOWER_TYPE), PyStr(LOWER_NAME)),
      Plain(PyStr(OPENROUTER_TYPE), PyStr(ROUTER_NAME)),
      Node({"type", "name", "parameters"}, PyStr(OPENROUTER_TYPE), PyStr(ROUTER_NAME),
           <<>>, EmptyDict) }
    \cup { Router(m) : m \in ModelValues }

\* Nodes that lack `type`, `name` or both.
MalformedNodes ==
    { Node({"name"}, PyNone, PyStr(HELPER_NAME), <<>>, EmptyDict),
      Node({"type"}, PyStr(OTHER_TYPE), PyNone, <<>>, EmptyDict),
      Node({"type"}, PyStr(PLAIN_TYPE), PyNone, <<>>, EmptyDict),
      Node({"type"}, PyStr(OPENROUTER_TYPE), PyNone, <<>>, EmptyDict),
      Node({}, PyNone, PyNone, <<>>, EmptyDict) }

Nodes == WellFormedNodes \cup MalformedNodes

\* The id of the workflow at a position of the input.
IdAt(i) == <<"w1", "w2", "w3", "w4", "w5", "w6">>[i]

\* A workflow record with every key and no node yet, and one with `id` alone.
FullWorkflow(i) ==
    [keys |-> {"id", "name", "active", "nodes"}, id |-> IdAt(i),
     name |-> "wf", active |-> TRUE, nodes |-> <<>>]

BareWorkflow(i) ==
    [keys |-> {"id"}, id |-> IdAt(i), name |-> None, active |-> FALSE, nodes |-> <<>>]

\* The number of nodes of a list of workflows.
RECURSIVE CountNodes(_)
CountNodes(workflows) ==
    IF workflows = <<>> THEN 0
    ELSE Len(workflows[1].nodes) + CountNodes(Tail(workflows))

\* The caller puts one more workflow record into data["data"].
AddWorkflow ==
    /\ classifier_pc = "ready"
    /\ Len(classifier_input) < MaxWorkflows
    /\ \E w \in { FullWorkflow(Len(classifier_input) + 1),
                  BareWorkflow(Len(classifier_input) + 1) } :
          classifier_input' = Append(classifier_input, w)
    /\ UNCHANGED <<classifier_pc, classifier_result, fetchVars, appVars>>

\* The caller puts one more node into the last workflow's `nodes`.
AddNode ==
    /\ classifier_pc = "ready"
    /\ classifier_input # <<>>
    /\ "nodes" \in classifier_input[Len(classifier_input)].keys
    /\ CountNodes(classifier_input) < MaxNodes
    /\ \E n \in Nodes :
          classifier_input' =
              [classifier_input EXCEPT ![Len(classifier_input)].nodes = Append(@, n)]
    /\ UNCHANGED <<classifier_pc, classifier_result, fetchVars, appVars>>

\* process_workflows({"data": classifier_input}) returns its three lists.
ProcessReturns ==
    /\ classifier_pc = "ready"
    /\ process_workflows([keys |-> {"data"}, data |-> classifier_input]).raised = None
    /\ classifier_result' = process_workflows([keys |-> {"data"}, data |-> classifier_input])
    /\ classifier_pc' = "returned"
    /\ UNCHANGED <<classifier_input, fetchVars, appVars>>

\* process_workflows({"data": classifier_input}) ends in an exception.
ProcessRaises ==
    /\ classifier_pc = "ready"
    /\ process_workflows([keys |-> {"data"}, data |-> classifier_input]).raised # None
    /\ classifier_result' = process_workflows([keys |-> {"data"}, data |-> classifier_input])
    /\ classifier_pc' = "raised"
    /\ UNCHANGED <<classifier_input, fetchVars, appVars>>

-----------------------------------------------------------------------------
(* The Streamlit script (app.py).  Streamlit runs the whole script once    *)
(* per interaction; st.session_state and the widgets' values outlive a     *)
(* run, the script's locals and what it displayed do not.  One action is   *)
(* one interaction with the script run it triggers.                        *)

\* st.session_state.workflow_data: None, or the three lists of a fetch.
NoData == [t |-> "NoneType", openrouter |-> <<>>, other |-> <<>>, all |-> <<>>]

\* The status container: its label and the message given to status.error.
NoStatus == [label |-> None, error |-> None]

\* all_workflows_dict[wf_id] = wf: a dict keeps its keys in the order of
\* their first insertion; it is a sequence of (key, value) entries.
dict_set(d, k, v) ==
    IF \E i \in 1..Len(d) : d[i].key = k
    THEN [i \in 1..Len(d) |-> IF d[i].key = k THEN [key |-> k, value |-> v] ELSE d[i]]
    ELSE Append(d, [key |-> k, value |-> v])

\* list(all_workflows_dict.values())
dict_values(d) == [i \in 1..Len(d) |-> d[i].value]

\* for wf in batch: wf_id = wf.get("id"); if wf_id: all_workflows_dict[wf_id] = wf
RECURSIVE accumulate(_, _)
accumulate(d, batch) ==
    IF batch = <<>> THEN d
    ELSE LET wf == batch[1]
             wf_id == dict_get(wf, "id", PyNone)
         IN  accumulate(IF truth(wf_id) THEN dict_set(d, wf_id, wf) ELSE d, Tail(batch))

\* api_url = None
\* if base_url_input: api_url = f"{base_url_input.rstrip('/')}/api/v1/workflows"
driver_api_url(base) ==
    IF truth(base) THEN workflows_url(rstrip_slash(base.s)) ELSE PyNone

\* The script's main logic without a fetch (app.py:170, 223-229): the
\* dashboard of the session's data, nothing, or the warning.
MainLogicShows(key, session_data) ==
    IF truth(key)
    THEN IF session_data.t # "NoneType" THEN "dashboard" ELSE "nothing"
    ELSE "warning"

\* A script run that starts no fetch: what the last run held is gone.
RunWithoutFetch(key, session_data) ==
    /\ app_pc' = MainLogicShows(key, session_data)
    /\ status' = NoStatus
    /\ all_workflows_dict' = <<>>
    /\ args' = NoCall
    /\ pc' = "uncalled"
    /\ raised' = None
    /\ UNCHANGED <<env, api_key, api_url, batch_size, cursor, data, requests,
                   responses, yielded>>
    /\ UNCHANGED classifyVars

BaseUrlInputs == {PyStr(<<>>), PyStr(INPUT_URL), PyStr(INPUT_URL_SLASH)}

ApiKeyInputs == {PyStr(<<>>), PyStr(ARG_KEY)}

\* The user edits "N8N Base URL".
SetBaseUrl ==
    \E u \in BaseUrlInputs :
        /\ u # base_url_input
        /\ base_url_input' = u
        /\ RunWithoutFetch(api_key_input, workflow_data)
        /\ UNCHANGED <<api_key_input, batch_size_input, workflow_data>>

\* The user edits "N8N API Key".
SetApiKey ==
    \E k \in ApiKeyInputs :
        /\ k # api_key_input
        /\ api_key_input' = k
        /\ RunWithoutFetch(k, workflow_data)
        /\ UNCHANGED <<base_url_input, batch_size_input, workflow_data>>

\* The user edits "Batch Size".
SetBatchSize ==
    \E n \in BatchSizeInputs :
        /\ n # batch_size_input
        /\ batch_size_input' = n
        /\ RunWithoutFetch(api_key_input, workflow_data)
        /\ UNCHANGED <<base_url_input, api_key_input, workflow_data>>

\* "Refresh Data": st.session_state.workflow_data = None; st.rerun()
ClickRefresh ==
    /\ workflow_data' = NoData
    /\ RunWithoutFetch(api_key_input, NoData)
    /\ UNCHANGED <<base_url_input, api_key_input, batch_size_input>>

\* "Fetch Workflows" (app.py:170-190): with a key, the run empties the
\* deduplication dict, opens the status container and evaluates the call of
\* the for statement.  The call passes batch_size=, which is no parameter of
\* fetch_workflows_generator: it raises TypeError, nothing catches it, and
\* the run ends there.  Were the call to bind, the run would hold a generator
\* and go on to iterate it.
ClickFetch ==
    /\ IF truth(api_key_input)
       THEN /\ all_workflows_dict' = <<>>
            /\ status' = [label |-> "Fetching workflows...", error |-> None]
            /\ args' = [names |-> DriverCall,
                        api_url |-> driver_api_url(base_url_input),
                        api_key |-> api_key_input]
            /\ IF Binds(DriverCall)
               THEN /\ pc' = "created"
                    /\ raised' = None
                    /\ app_pc' = "iterating"
               ELSE /\ pc' = "raised"
                    /\ raised' = "TypeError"
                    /\ app_pc' = "raised"
            /\ UNCHANGED <<env, api_key, api_url, batch_size, cursor, data,
                           requests, responses, yielded>>
            /\ UNCHANGED classifyVars
       ELSE RunWithoutFetch(api_key_input, workflow_data)
    /\ UNCHANGED <<base_url_input, api_key_input, batch_size_input, workflow_data>>

-----------------------------------------------------------------------------
(* The specifications: the Fetcher called on its own (by its signature, or *)
(* with the keywords of app.py:190), the Classifier called on its own, and *)
(* the script.                                                             *)

\* No script run.
AppIdle ==
    /\ base_url_input = PyStr(<<>>)
    /\ api_key_input = PyStr(<<>>)
    /\ workflow_data = NoData
    /\ all_workflows_dict = <<>>
    /\ status = NoStatus
    /\ app_pc = "idle"

\* No call of the Classifier.
ClassifyIdle ==
    /\ classifier_pc = "idle"
    /\ classifier_input = <<>>
    /\ classifier_result = NoRows

\* No call of the Fetcher.
FetchIdle ==
    /\ env = [N8N_API_KEY |-> PyNone, N8N_BASE_URL |-> PyNone, N8N_BATCH_SIZE |-> PyNone]
    /\ args = NoCall
    /\ batch_size_input = 10
    /\ NotCalled

FetchInit ==
    /\ env \in Environments
    /\ args \in Calls
    /\ batch_size_input \in BatchSizeInputs
    /\ NotCalled
    /\ ClassifyIdle
    /\ AppIdle

FetchNext ==
    \/ Call
    \/ ResumeCreated
    \/ ResumeAfterBatch
    \/ ResumeAfterError

FetchSpec == FetchInit /\ [][FetchNext]_vars

ClassifyInit ==
    /\ FetchIdle
    /\ AppIdle
    /\ classifier_pc = "ready"
    /\ classifier_input = <<>>
    /\ classifier_result = NoRows

ClassifyNext ==
    \/ AddWorkflow
    \/ AddNode
    \/ ProcessReturns
    \/ ProcessRaises

ClassifySpec == ClassifyInit /\ [][ClassifyNext]_vars

\* The session after the first script run: empty inputs, Batch Size 10,
\* workflow_data initialised to None (app.py:65-66), the warning shown.
AppInit ==
    /\ env \in Environments
    /\ args = NoCall
    /\ batch_size_input = 10
    /\ NotCalled
    /\ ClassifyIdle
    /\ base_url_input = PyStr(<<>>)
    /\ api_key_input = PyStr(<<>>)
    /\ workflow_data = NoData
    /\ all_workflows_dict = <<>>
    /\ status = NoStatus
    /\ app_pc = "warning"

AppNext ==
    \/ SetBaseUrl
    \/ SetApiKey
    \/ SetBatchSize
    \/ ClickRefresh
    \/ ClickFetch

AppSpec == AppInit /\ [][AppNext]_vars

\* The module's default specification is the Fetcher's.
Init == FetchInit

Next == FetchNext

Spec == FetchSpec

-----------------------------------------------------------------------------
(* Properties of the Fetcher.                                              *)

Last(s) == s[Len(s)]

RECURSIVE TotalItems(_)
TotalItems(vs) ==
    IF vs = <<>> THEN 0 ELSE Len(vs[1].items) + TotalItems(Tail(vs))

RECURSIVE TotalData(_)
TotalData(rs) ==
    IF rs = <<>> THEN 0 ELSE Len(rs[1].body.data) + TotalData(Tail(rs))

\* A successful page: a 2xx response whose body is a JSON object with a
\* `data` array.
IsPage(r) == r.kind = "ok" /\ "data" \in r.body.keys

\* The page's nextCursor is absent, null or empty.
IsLastPage(r) ==
    \/ "nextCursor" \notin r.body.keys
    \/ r.body.nextCursor = PyNone
    \/ r.body.nextCursor = PyStr(<<>>)

HasError(vs) == \E i \in 1..Len(vs) : IsErrorValue(vs[i])

\* The generator's body has run: the call bound and next() was called.
HasRun == pc \in {"at_yield_batch", "at_yield_error", "done"}

\* C1: while every response so far is a successful page, the generator has
\* yielded exactly one batch per page, in page order, each equal to the
\* page's `data`, and no error value; the first request carried no cursor
\* and request k+1 the nextCursor of response k; no request followed a page
\* without nextCursor; the yielded records add up to the pages' data; and
\* after a last page the generator is at that page's yield or has ended.
C1_OneBatchPerPage ==
    LET n == Len(responses) IN
    (n >= 1 /\ \A i \in 1..n : IsPage(responses[i])) =>
        /\ Len(yielded) = n
        /\ Len(requests) = n
        /\ \A i \in 1..n : yielded[i] = BatchValue(responses[i].body.data)
        /\ ~HasError(yielded)
        /\ "cursor" \notin requests[1].params.keys
        /\ \A k \in 1..(n - 1) :
              /\ ~IsLastPage(responses[k])
              /\ "cursor" \in requests[k + 1].params.keys
              /\ requests[k + 1].params.cursor = responses[k].body.nextCursor
        /\ pc \in {"at_yield_batch", "done"}
        /\ TotalItems(yielded) = TotalData(responses)

\* C1 witness: a fetch of three pages has ended, the last page without a
\* cursor, three batches yielded.
C1_Witness ==
    /\ pc = "done"
    /\ Len(responses) = 3
    /\ \A i \in 1..3 : IsPage(responses[i])
    /\ IsLastPage(responses[3])
    /\ Len(yielded) = 3
    /\ TotalItems(yielded) >= 3

\* C2: a request that fails (no response, a non-2xx status, a body that does
\* not decode) adds exactly one error value to what was yielded before, the
\* first error value of the fetch, and leaves the generator at that yield;
\* once an error value has been yielded the only step left ends the
\* generator: nothing more is yielded and no request is issued.
C2_ErrorIsTerminal ==
    [][ /\ (Len(responses') > Len(responses) /\ Last(responses').kind # "ok") =>
              /\ \E m \in {"Failed to decode JSON", "Request failed",
                           "An unexpected error occurred"} :
                    yielded' = Append(yielded, ErrorValue(m))
              /\ ~HasError(yielded)
              /\ pc' = "at_yield_error"
        /\ HasError(yielded) =>
              /\ yielded' = yielded
              /\ requests' = requests
              /\ responses' = responses
              /\ pc' = "done"
      ]_vars

\* C2 witness: the second request got a non-2xx status after one batch, the
\* consumer asked again and the generator ended.
C2_Witness ==
    /\ pc = "done"
    /\ Len(responses) = 2
    /\ responses[2].kind = "http_error"
    /\ Len(requests) = 2
    /\ Len(yielded) = 2
    /\ ~IsErrorValue(yielded[1])
    /\ IsErrorValue(yielded[2])

\* C3 as stated: a call whose api_key or api_url argument is None or empty
\* yields exactly one error value and issues no request.
C3_AsStated ==
    (HasRun /\ (~truth(args.api_key) \/ ~truth(args.api_url))) =>
        /\ requests = <<>>
        /\ Len(yielded) = 1
        /\ IsErrorValue(yielded[1])

\* The key, or the endpoint, is given neither by the argument nor by the
\* environment variable read in its place.
Unresolved ==
    \/ ~truth(args.api_key) /\ ~truth(env["N8N_API_KEY"])
    \/ ~truth(args.api_url) /\ ~truth(env["N8N_BASE_URL"])

\* C3 amended: when the key or the endpoint is given neither by the argument
\* nor by the environment (N8N_API_KEY, N8N_BASE_URL), the generator yields
\* exactly one error value, nothing else, and issues no request.
C3_UnresolvedConfig ==
    (HasRun /\ Unresolved) =>
        /\ requests = <<>>
        /\ Len(yielded) = 1
        /\ IsErrorValue(yielded[1])
        /\ yielded[1].error \in {"API key not found", "API URL not found"}

\* C3 witness: a key but no endpoint argument, N8N_BASE_URL unset, and the
\* generator has ended after its one error value.
C3_Witness ==
    /\ pc = "done"
    /\ truth(args.api_key)
    /\ ~truth(args.api_url)
    /\ env["N8N_BASE_URL"] = PyNone
    /\ yielded = <<ErrorValue("API URL not found")>>
    /\ requests = <<>>

\* C4 as stated: no invocation of the Fetcher lets an exception escape.
C4_NeverRaises == raised = None

\* C5 as stated: every request of a fetch carries the page size the caller
\* holds as its `limit`.
C5_LimitIsCallerPageSize ==
    \A i \in 1..Len(requests) : requests[i].params.limit = batch_size_input

-----------------------------------------------------------------------------
(* Properties of the Classifier.                                           *)

Called == classifier_pc \in {"returned", "raised"}

\* The node carries a `type` and a `name`.
WellFormed(node) == {"type", "name"} \subseteq node.keys

AllWellFormed(workflows) ==
    \A i \in 1..Len(workflows) :
        \A j \in 1..Len(workflows[i].nodes) : WellFormed(workflows[i].nodes[j])

\* The node's type is exactly the preferred provider's.
IsPreferredNode(node) ==
    "type" \in node.keys /\ node.type = PyStr(OPENROUTER_TYPE)

\* The node's type contains "lmChat" or its name contains "ChatModel".
MatchesOtherRule(node) ==
    \/ "type" \in node.keys /\ Contains(LM_CHAT, node.type.s)
    \/ "name" \in node.keys /\ Contains(CHAT_MODEL, node.name.s)

HasPreferred(w) == \E j \in 1..Len(w.nodes) : IsPreferredNode(w.nodes[j])

HasOtherAsStated(w) == \E j \in 1..Len(w.nodes) : MatchesOtherRule(w.nodes[j])

HasOtherNotPreferred(w) ==
    \E j \in 1..Len(w.nodes) :
        ~IsPreferredNode(w.nodes[j]) /\ MatchesOtherRule(w.nodes[j])

\* The rows, in order, at the positions that are flagged.
RECURSIVE Pick(_, _)
Pick(rows, flags) ==
    IF flags = <<>> THEN <<>>
    ELSE (IF flags[1] THEN <<rows[1]>> ELSE <<>>) \o Pick(Tail(rows), Tail(flags))

PreferredFlags == [i \in 1..Len(classifier_input) |-> HasPreferred(classifier_input[i])]

OtherFlagsAsStated ==
    [i \in 1..Len(classifier_input) |-> HasOtherAsStated(classifier_input[i])]

OtherFlagsNotPreferred ==
    [i \in 1..Len(classifier_input) |-> HasOtherNotPreferred(classifier_input[i])]

\* The all list holds one row per input workflow, in input order.
OneRowEach ==
    /\ Len(classifier_result.all_workflows_data) = Len(classifier_input)
    /\ \A i \in 1..Len(classifier_input) :
          classifier_result.all_workflows_data[i].ID = classifier_input[i].id

\* C6 as stated, for the calls that return: the preferred list holds the rows
\* of the workflows with a node of the preferred type, the other list the
\* rows of the workflows with a node whose type contains "lmChat" or whose
\* name contains "ChatModel", the all list one row per workflow in order.
C6_AsStated ==
    classifier_pc = "returned" =>
        /\ OneRowEach
        /\ classifier_result.openrouter_workflows =
              Pick(classifier_result.all_workflows_data, PreferredFlags)
        /\ classifier_result.other_model_workflows =
              Pick(classifier_result.all_workflows_data, OtherFlagsAsStated)

\* C6 amended: for every input whose nodes all carry `type` and `name`, the
\* call returns; a workflow's row is in the preferred list iff it has a node
\* of exactly the preferred type, and in the other list iff it has a node
\* that is NOT of the preferred type and whose type contains "lmChat" or
\* whose name contains "ChatModel"; the two are decided independently; the
\* all list holds one row per input workflow, in input order.
C6_Membership ==
    (Called /\ AllWellFormed(classifier_input)) =>
        /\ classifier_pc = "returned"
        /\ OneRowEach
        /\ classifier_result.openrouter_workflows =
              Pick(classifier_result.all_workflows_data, PreferredFlags)
        /\ classifier_result.other_model_workflows =
              Pick(classifier_result.all_workflows_data, OtherFlagsNotPreferred)

\* C6 witness: two workflows, the first with a preferred node and a node
\* matched by its name alone, the second with no node: the first row is in
\* both lists, the second in neither.
C6_Witness ==
    /\ classifier_pc = "returned"
    /\ Len(classifier_input) = 2
    /\ Len(classifier_input[1].nodes) = 2
    /\ IsPreferredNode(classifier_input[1].nodes[1])
    /\ classifier_input[1].nodes[2].type = PyStr(PLAIN_TYPE)
    /\ classifier_input[1].nodes[2].name = PyStr(HELPER_NAME)
    /\ Len(classifier_result.all_workflows_data) = 2
    /\ classifier_result.openrouter_workflows = <<classifier_result.all_workflows_data[1]>>
    /\ classifier_result.other_model_workflows = <<classifier_result.all_workflows_data[1]>>

\* C7 as stated: process_workflows returns normally whatever fields its
\* nodes lack.
C7_NeverRaises == classifier_pc # "raised"

\* The `model` entries of C8 as stated: one per preferred node whose
\* parameters hold a `model` key, whatever its value.
RECURSIVE ModelsAsStated(_)
ModelsAsStated(nodes) ==
    IF nodes = <<>> THEN <<>>
    ELSE LET node == nodes[1] IN
         (IF /\ IsPreferredNode(node)
             /\ "parameters" \in node.keys
             /\ "model" \in node.parameters.keys
          THEN <<PyStr(IF node.parameters.model.t = "dict"
                       THEN DYNAMIC ELSE str(node.parameters.model))>>
          ELSE <<>>)
         \o ModelsAsStated(Tail(nodes))

\* The same, for the values that are true in Python: a mapping with a key,
\* a str that is not empty, a number that is not 0, True.
RECURSIVE ModelsOfTrueValues(_)
ModelsOfTrueValues(nodes) ==
    IF nodes = <<>> THEN <<>>
    ELSE LET node == nodes[1] IN
         (IF /\ IsPreferredNode(node)
             /\ "parameters" \in node.keys
             /\ "model" \in node.parameters.keys
             /\ truth(node.parameters.model)
          THEN <<PyStr(IF node.parameters.model.t = "dict"
                       THEN DYNAMIC ELSE str(node.parameters.model))>>
          ELSE <<>>)
         \o ModelsOfTrueValues(Tail(nodes))

\* C8 as stated: every row's "Model Used" is the ", "-join of one entry per
\* preferred node with a `model` field, "Dynamic" for any mapping and the
\* string form of any scalar.
C8_AsStated ==
    classifier_pc = "returned" =>
        \A i \in 1..Len(classifier_result.all_workflows_data) :
            classifier_result.all_workflows_data[i].Model_Used =
                join(ModelsAsStated(classifier_input[i].nodes))

\* C8 amended: every row's "Model Used" is the ", "-join, in node order, of
\* one entry per preferred node whose `model` value is present and true in
\* Python: "Dynamic" for a mapping that is not empty, the string form of a
\* scalar other than 0, False and the empty string; every other node
\* contributes nothing, and without entries the field is the empty string.
C8_ModelUsed ==
    classifier_pc = "returned" =>
        /\ Len(classifier_result.all_workflows_data) = Len(classifier_input)
        /\ \A i \in 1..Len(classifier_input) :
              classifier_result.all_workflows_data[i].Model_Used =
                  join(ModelsOfTrueValues(classifier_input[i].nodes))

\* C8 witness: a workflow with two preferred nodes, the first with a mapping
\* and the second with the number 7 as its model: "Dynamic, 7".
C8_Witness ==
    /\ classifier_pc = "returned"
    /\ Len(classifier_input) = 1
    /\ classifier_input[1].nodes = <<Router(PyDict(1)), Router(PyInt(7))>>
    /\ classifier_result.all_workflows_data[1].Model_Used =
          DYNAMIC \o SEPARATOR \o <<"7">>

-----------------------------------------------------------------------------
(* Properties of the script.                                               *)

\* The last script run started a fetch and is over.
FetchRunOver == args.names = DriverCall /\ app_pc # "iterating"

=============================================================================
